---- MODULE Spec2Model ----
(***************************************************************************)
(* Model of app.py (GPIS player metric and similarity dashboard).          *)
(*                                                                         *)
(* The script is a Streamlit page: the whole file is re-executed on every  *)
(* user interaction (after the widget's key has been written to the        *)
(* session state and its on_change callback has run).  The helpers         *)
(* best_match_for, find_similar_players, radar_chart and gpis_quality are  *)
(* pure functions of the two loaded tables; they are modelled as operators *)
(* and exercised both by direct calls and by the script body.              *)
(*                                                                         *)
(* Numbers: similarity values, scores and z-scores are small integers.     *)
(* A percentile is an exact rational <<numerator, denominator>> with a     *)
(* positive denominator, so boundary values such as 84.999 are exact.      *)
(***************************************************************************)
EXTENDS Integers, Sequences, FiniteSets, TLC

\* ------------------------------------------------------------------ bounds
MaxPlayers == 3
MaxSim == 2
MaxN == 3
MaxScore == 3
MaxZ == 1

\* ------------------------------------------------- constants of the program
TOP_N_DEFAULT == 10

Names == <<"A", "B", "C", "D", "E", "F">>
NoKey == "<absent>"
NoValue == "<none>"

StyleFeatures == <<"progression_raw_per90_z", "xg_per90_z", "shot_assists_per90_z",
                   "goal_assists_per90_z", "defensive_raw_per90_z">>
StyleLabels == <<"Progression", "Threat (xG)", "Shot Assists", "Goal Assists",
                 "Defensive Impact">>
NumFeatures == Len(StyleFeatures)

\* df, similarity_df  the two tables load_data returns (line 23)
\* tieOrder           how the sort of this build leaves rows of equal value:
\*                    sort_values uses an unstable sort, which is one fixed
\*                    function of its input for the life of the process
\* style_features,
\* style_labels       the two module-level lists (lines 115-129)
\* session_state      st.session_state, keys player_main, player_top,
\*                    player_similarity (lines 28-35)
\* selected           the widget key and the value of the last selection
\* run                what the last execution of the script body computed
\* call               the last direct call of a helper and its result
VARIABLES df, similarity_df, tieOrder, style_features, style_labels,
          session_state, selected, run, call

vars == <<df, similarity_df, tieOrder, style_features, style_labels,
          session_state, selected, run, call>>

\* ----------------------------------------------------------- small helpers
Range(s) == {s[i] : i \in 1..Len(s)}

Max(a, b) == IF a >= b THEN a ELSE b

Min(a, b) == IF a <= b THEN a ELSE b

Abs(a) == IF a >= 0 THEN a ELSE -a

RECURSIVE SumSet(_)
SumSet(S) == IF S = {} THEN 0
             ELSE LET x == CHOOSE y \in S : TRUE IN x + SumSet(S \ {x})

\* equality of two exact rationals with positive denominators
RatEq(a, b) == a[1] * b[2] = b[1] * a[2]

\* a >= b for exact rationals with positive denominators
RatGeq(a, b) == a[1] * b[2] >= b[1] * a[2]

\* ------------------------------------------------------------- the tables
PlayerIndex(k) == SubSeq(Names, 1, k)

PlayerNo(p) == CHOOSE i \in 1..Len(Names) : Names[i] = p

\* player_metrics.parquet: one row per player, keyed by the player id
PlayerTable(k, gpis, row) ==
    [index |-> PlayerIndex(k),
     GPIS |-> [p \in Range(PlayerIndex(k)) |-> gpis[PlayerNo(p)]],
     minutes_played |-> [p \in Range(PlayerIndex(k)) |-> 90 * PlayerNo(p)],
     features |-> [p \in Range(PlayerIndex(k)) |->
                     [j \in 1..NumFeatures |->
                        row[((j - 1 + PlayerNo(p) - 1) % NumFeatures) + 1]]]]

\* similarity_matrix.parquet: square, same ids on rows and columns.  Off the
\* diagonal the value falls with the distance of two players' positions, the
\* diagonal holds diag.  vals[c][r] is the cell in column c, row r.
SimilarityTable(k, pos, diag) ==
    [index |-> PlayerIndex(k),
     vals |-> [c \in Range(PlayerIndex(k)) |->
                 [r \in Range(PlayerIndex(k)) |->
                    IF r = c THEN diag
                    ELSE MaxSim - Abs(pos[PlayerNo(c)] - pos[PlayerNo(r)])]]]

DefaultGpis == [i \in 1..Len(Names) |-> 10 * ((i % MaxScore) + 1)]

DefaultRow == [j \in 1..NumFeatures |-> (j % (2 * MaxZ + 1)) - MaxZ]

DefaultPos == [i \in 1..Len(Names) |-> i % (MaxSim + 1)]

\* -------------------------------------------------- pandas Series helpers
\* A Series is a sequence of rows [label, value] in index order.
Column(player) ==
    [i \in 1..Len(similarity_df.index) |->
        [label |-> similarity_df.index[i],
         value |-> similarity_df.vals[player][similarity_df.index[i]],
         pos |-> i]]

\* Drop with the drop forgotten
Drop_Nothing(s, label) == s

\* Series.drop(label): every row carrying the label is removed
Drop(s, label) == SelectSeq(s, LAMBDA r : r.label # label)

\* Before with the sort left ascending
Before_Ascending(a, b) ==
    \/ a.value < b.value
    \/ /\ a.value = b.value
       /\ IF tieOrder = "input" THEN a.pos < b.pos ELSE a.pos > b.pos

\* the order sort_values(ascending=False) produces: larger value first; rows
\* of equal value in the order the sort of this build leaves them in
Before(a, b) ==
    \/ a.value > b.value
    \/ /\ a.value = b.value
       /\ IF tieOrder = "input" THEN a.pos < b.pos ELSE a.pos > b.pos

RECURSIVE SortRows(_)
SortRows(S) ==
    IF S = {} THEN <<>>
    ELSE LET first == CHOOSE a \in S : \A b \in S \ {a} : Before(a, b)
         IN <<first>> \o SortRows(S \ {first})

SortValuesDescending(s) == SortRows(Range(s))

\* Head_ with the cut forgotten
Head_All(s, n) == s

\* Head_ taking a negative n for zero
Head_Clamped(s, n) == SubSeq(s, 1, Min(Max(n, 0), Len(s)))

\* Series.head(n) is iloc[:n]: a negative n drops the last -n rows
Head_(s, n) ==
    IF n >= 0 THEN SubSeq(s, 1, Min(n, Len(s)))
    ELSE SubSeq(s, 1, Max(0, Len(s) + n))

\* to_frame("Similarity").join(df[["GPIS", "minutes_played"]]): left join on
\* the index, the left rows keep their order
JoinScores(s) ==
    [i \in 1..Len(s) |->
        [player |-> s[i].label,
         Similarity |-> s[i].value,
         GPIS |-> IF s[i].label \in DOMAIN df.GPIS
                  THEN df.GPIS[s[i].label] ELSE NoValue,
         minutes_played |-> IF s[i].label \in DOMAIN df.minutes_played
                            THEN df.minutes_played[s[i].label] ELSE NoValue]]

\* ----------------------------------------------------------------- helpers
\* best_match_for reading the other end of the sorted column
best_match_for_Last(player) ==
    LET sorted == SortValuesDescending(Drop(Column(player), player))
    IN IF Len(sorted) = 0 THEN NoValue ELSE sorted[Len(sorted)].label

\* best_match_for: NoValue stands for the IndexError of index[0] on an
\* empty index
best_match_for(player) ==
    LET sorted == SortValuesDescending(Drop(Column(player), player))
    IN IF Len(sorted) = 0 THEN NoValue ELSE sorted[1].label

find_similar_players(player, top_n) ==
    JoinScores(Head_(SortValuesDescending(Drop(Column(player), player)), top_n))

\* Series.rank(pct=True) with the default method "average": the values are
\* sorted ascending, a value's rank is the mean of the 1-based positions its
\* ties occupy, and pct divides the rank by the number of values.
RECURSIVE InsertAscending(_, _)
InsertAscending(x, s) ==
    IF s = <<>> THEN <<x>>
    ELSE IF x <= Head(s) THEN <<x>> \o s
    ELSE <<Head(s)>> \o InsertAscending(x, Tail(s))

RECURSIVE SortAscending(_)
SortAscending(s) ==
    IF s = <<>> THEN <<>> ELSE InsertAscending(Head(s), SortAscending(Tail(s)))

ScoreValues(column, index) == [i \in 1..Len(index) |-> column[index[i]]]

\* RankAverage with method "min": ties take their lowest position
RankAverage_Min(column, index, player) ==
    LET sorted == SortAscending(ScoreValues(column, index))
        tied == {i \in 1..Len(sorted) : sorted[i] = column[player]}
    IN <<CHOOSE i \in tied : \A j \in tied : i <= j, 1>>

\* the rank as the exact rational <<sum of the tied positions, number of ties>>
RankAverage(column, index, player) ==
    LET sorted == SortAscending(ScoreValues(column, index))
        tied == {i \in 1..Len(sorted) : sorted[i] = column[player]}
    IN <<SumSet(tied), Cardinality(tied)>>

\* df["GPIS"].rank(pct=True).loc[player] * 100
percentile(column, index, player) ==
    LET r == RankAverage(column, index, player)
    IN <<100 * r[1], r[2] * Len(index)>>

\* gpis_quality with thresholds exclusive on the lower bound
gpis_quality_Strict(pct) ==
    IF ~RatGeq(<<85, 1>>, pct) THEN <<"Elite impact", "#2ecc71">>
    ELSE IF ~RatGeq(<<60, 1>>, pct) THEN <<"Above average", "#3498db">>
    ELSE IF ~RatGeq(<<40, 1>>, pct) THEN <<"League average", "#f1c40f">>
    ELSE <<"Below average", "#e74c3c">>

gpis_quality(pct) ==
    IF RatGeq(pct, <<85, 1>>) THEN <<"Elite impact", "#2ecc71">>
    ELSE IF RatGeq(pct, <<60, 1>>) THEN <<"Above average", "#3498db">>
    ELSE IF RatGeq(pct, <<40, 1>>) THEN <<"League average", "#f1c40f">>
    ELSE <<"Below average", "#e74c3c">>

\* df.loc[p, features].tolist()
FeatureValues(p, features) ==
    [j \in 1..Len(features) |->
        df.features[p][CHOOSE c \in 1..NumFeatures : StyleFeatures[c] = features[j]]]

\* radar_chart closing each sequence with its last element
radar_chart_LastAgain(p1, p2, features, labels) ==
    LET v1 == FeatureValues(p1, features)
        v2 == FeatureValues(p2, features)
    IN [r1 |-> v1 \o <<v1[Len(v1)]>>,
        r2 |-> v2 \o <<v2[Len(v2)]>>,
        theta |-> labels \o <<labels[Len(labels)]>>,
        name1 |-> p1,
        name2 |-> p2,
        features |-> features,
        labels |-> labels]

\* radar_chart up to the traces: r1, r2 and theta are the closed sequences
\* handed to the figure; features and labels are the caller's two list
\* objects as the call leaves them
radar_chart(p1, p2, features, labels) ==
    LET v1 == FeatureValues(p1, features)
        v2 == FeatureValues(p2, features)
    IN [r1 |-> v1 \o <<v1[1]>>,
        r2 |-> v2 \o <<v2[1]>>,
        theta |-> labels \o <<labels[1]>>,
        name1 |-> p1,
        name2 |-> p2,
        features |-> features,
        labels |-> labels]

\* ------------------------------------------------------------ session state
\* sync_from_top without its second assignment
sync_from_top_MainOnly(ss) == [ss EXCEPT !.player_main = ss.player_top]

sync_from_top(ss) ==
    LET s1 == [ss EXCEPT !.player_main = ss.player_top]
    IN [s1 EXCEPT !.player_similarity = s1.player_top]

sync_from_similarity(ss) ==
    LET s1 == [ss EXCEPT !.player_main = ss.player_similarity]
    IN [s1 EXCEPT !.player_top = s1.player_similarity]

\* lines 28-35: each key is set only when it is missing
SessionStateInit(ss) ==
    LET s1 == IF ss.player_main = NoKey
              THEN [ss EXCEPT !.player_main = df.index[1]] ELSE ss
        s2 == IF s1.player_top = NoKey
              THEN [s1 EXCEPT !.player_top = s1.player_main] ELSE s1
    IN IF s2.player_similarity = NoKey
       THEN [s2 EXCEPT !.player_similarity = s2.player_main] ELSE s2

\* list.index(x): 0-based position of the first equal element, -1 stands for
\* the ValueError of a missing element
ListIndex(s, x) ==
    IF x \in Range(s) THEN (CHOOSE i \in 1..Len(s) : s[i] = x /\ \A j \in 1..(i - 1) : s[j] # x) - 1
    ELSE -1

NoFigure == [r1 |-> <<>>, r2 |-> <<>>, theta |-> <<>>, name1 |-> NoValue,
             name2 |-> NoValue, features |-> <<>>, labels |-> <<>>]

NoRun == [status |-> "not run", player |-> NoValue, percentile |-> <<0, 1>>,
          quality |-> <<NoValue, NoValue>>, similar_options |-> <<>>,
          default_b |-> NoValue, default_index |-> -1, player_b |-> NoValue,
          similar_df |-> <<>>, fig |-> NoFigure]

\* One execution of the script body on session state ss (already initialised).
\* choice is what the user picked in the "Player B" selectbox, NoValue when
\* the box shows its default option.
ScriptBody(ss, choice) ==
    LET player == ss.player_main
        pct == percentile(df.GPIS, df.index, player)
        similar_options == [i \in 1..Len(find_similar_players(player, TOP_N_DEFAULT)) |->
                               find_similar_players(player, TOP_N_DEFAULT)[i].player]
        default_b == best_match_for(player)
        default_index == ListIndex(similar_options, default_b)
        player_b == IF choice \in Range(similar_options) THEN choice
                    ELSE similar_options[default_index + 1]
        shown == [NoRun EXCEPT !.player = player, !.percentile = pct,
                               !.quality = gpis_quality(pct),
                               !.similar_options = similar_options]
    IN IF default_b = NoValue THEN [shown EXCEPT !.status = "IndexError"]
       ELSE IF default_index < 0
       THEN [shown EXCEPT !.status = "ValueError", !.default_b = default_b]
       ELSE [shown EXCEPT !.status = "ok",
                          !.default_b = default_b,
                          !.default_index = default_index,
                          !.player_b = player_b,
                          !.similar_df = [i \in 1..Len(similar_options) |->
                              [find_similar_players(player, TOP_N_DEFAULT)[i]
                                  EXCEPT !.Similarity = @ * 100]],
                          !.fig = radar_chart(player, player_b, style_features,
                                              style_labels)]

\* ------------------------------------------------------------------- state
NoCall == [op |-> "none", player |-> NoValue, other |-> NoValue, n |-> 0,
           rows |-> <<>>, best |-> NoValue, pct |-> <<0, 1>>,
           quality |-> <<NoValue, NoValue>>, fig |-> NoFigure, error |-> "none"]

NoSession == [player_main |-> NoKey, player_top |-> NoKey, player_similarity |-> NoKey]

Players == Range(df.index)

\* the values of top_n the calls are made with: the default and a band
\* around zero
TopNValues == ((-MaxN)..MaxN) \cup {TOP_N_DEFAULT}

\* percentiles at, just below and just above the tier thresholds, and the
\* ends of the scale, in thousandths
PercentileSamples ==
    {<<1000 * t + d, 1000>> : t \in {0, 40, 60, 85, 100}, d \in {-1, 0, 1}}
        \ {<<-1, 1000>>, <<100001, 1000>>}

\* the process after start-up: both tables loaded, no session state yet
Loaded(k, pos, diag, tie, gpis, row) ==
    /\ df = PlayerTable(k, gpis, row)
    /\ similarity_df = SimilarityTable(k, pos, diag)
    /\ tieOrder = tie
    /\ style_features = StyleFeatures
    /\ style_labels = StyleLabels
    /\ session_state = NoSession
    /\ selected = <<NoValue, NoValue>>
    /\ run = NoRun
    /\ call = NoCall

\* the similarity table varies
InitSim ==
    \E k \in 1..MaxPlayers, diag \in 0..MaxSim, tie \in {"input", "reversed"} :
        \E pos \in [1..k -> 0..MaxSim] :
            Loaded(k, pos, diag, tie, DefaultGpis, DefaultRow)

\* the score column varies
InitRank ==
    \E k \in 1..MaxPlayers :
        \E gpis \in [1..k -> {10 * i : i \in 1..MaxScore}] :
            Loaded(k, DefaultPos, MaxSim, "input", gpis, DefaultRow)

\* the feature columns vary
InitRadar ==
    \E k \in 1..MaxPlayers :
        \E row \in [1..NumFeatures -> (-MaxZ)..MaxZ] :
            Loaded(k, DefaultPos, MaxSim, "input", DefaultGpis, row)

\* ----------------------------------------------------------------- actions
CallBestMatch(p) ==
    /\ call' = [NoCall EXCEPT !.op = "best_match_for", !.player = p,
                              !.best = best_match_for(p),
                              !.error = IF best_match_for(p) = NoValue
                                        THEN "IndexError" ELSE "none"]
    /\ UNCHANGED <<df, similarity_df, tieOrder, style_features, style_labels,
                   session_state, selected, run>>

CallFindSimilar(p, n) ==
    /\ call' = [NoCall EXCEPT !.op = "find_similar_players", !.player = p, !.n = n,
                              !.rows = find_similar_players(p, n)]
    /\ UNCHANGED <<df, similarity_df, tieOrder, style_features, style_labels,
                   session_state, selected, run>>

CallPercentile(p) ==
    /\ call' = [NoCall EXCEPT !.op = "percentile", !.player = p,
                              !.pct = percentile(df.GPIS, df.index, p),
                              !.quality = gpis_quality(percentile(df.GPIS, df.index, p))]
    /\ UNCHANGED <<df, similarity_df, tieOrder, style_features, style_labels,
                   session_state, selected, run>>

CallGpisQuality(x) ==
    /\ call' = [NoCall EXCEPT !.op = "gpis_quality", !.pct = x,
                              !.quality = gpis_quality(x)]
    /\ UNCHANGED <<df, similarity_df, tieOrder, style_features, style_labels,
                   session_state, selected, run>>

\* radar_chart(p1, p2, style_features, style_labels.copy()): the two module
\* lists are what the call leaves of the list objects it was given
CallRadarChart(p1, p2) ==
    LET fig == radar_chart(p1, p2, style_features, style_labels)
    IN /\ call' = [NoCall EXCEPT !.op = "radar_chart", !.player = p1, !.other = p2,
                                 !.fig = fig]
       /\ style_features' = fig.features
       /\ style_labels' = style_labels
       /\ UNCHANGED <<df, similarity_df, tieOrder, session_state, selected, run>>

\* the first execution of the script in a session
FirstRun ==
    /\ run.status = "not run"
    /\ session_state' = SessionStateInit(session_state)
    /\ run' = ScriptBody(SessionStateInit(session_state), NoValue)
    /\ UNCHANGED <<df, similarity_df, tieOrder, style_features, style_labels,
                   selected, call>>

\* the user picks v in the "Select player" box: the widget's key is written,
\* on_change runs, the script is executed again
SelectTop(v) ==
    /\ run.status # "not run"
    /\ v # session_state.player_top
    /\ LET ss == SessionStateInit(
                    sync_from_top([session_state EXCEPT !.player_top = v]))
       IN /\ session_state' = ss
          /\ run' = ScriptBody(ss, NoValue)
    /\ selected' = <<"player_top", v>>
    /\ UNCHANGED <<df, similarity_df, tieOrder, style_features, style_labels, call>>

\* the user picks v in the "Player A" box
SelectSimilarity(v) ==
    /\ run.status # "not run"
    /\ v # session_state.player_similarity
    /\ LET ss == SessionStateInit(
                    sync_from_similarity([session_state EXCEPT !.player_similarity = v]))
       IN /\ session_state' = ss
          /\ run' = ScriptBody(ss, NoValue)
    /\ selected' = <<"player_similarity", v>>
    /\ UNCHANGED <<df, similarity_df, tieOrder, style_features, style_labels, call>>

\* the user picks b in the "Player B" box (no key, no callback)
SelectPlayerB(b) ==
    /\ run.status = "ok"
    /\ b \in Range(run.similar_options)
    /\ b # run.player_b
    /\ session_state' = SessionStateInit(session_state)
    /\ run' = ScriptBody(SessionStateInit(session_state), b)
    /\ UNCHANGED <<df, similarity_df, tieOrder, style_features, style_labels,
                   selected, call>>

NextSim ==
    \/ \E p \in Players : CallBestMatch(p)
    \/ \E p \in Players, n \in TopNValues : CallFindSimilar(p, n)

NextScript ==
    \/ FirstRun
    \/ \E v \in Players : SelectTop(v)
    \/ \E v \in Players : SelectSimilarity(v)
    \/ \E b \in Players : SelectPlayerB(b)

NextRank ==
    \/ \E p \in Players : CallPercentile(p)
    \/ \E x \in PercentileSamples : CallGpisQuality(x)

NextRadar == \E p1 \in Players, p2 \in Players : CallRadarChart(p1, p2)

SpecSim == InitSim /\ [][NextSim]_vars

SpecScript == InitSim /\ [][NextScript]_vars

SpecRank == InitRank /\ [][NextRank]_vars

SpecRadar == InitRadar /\ [][NextRadar]_vars

\* ------------------------------------------------------------ properties
PlayerCount == Len(df.index)

Candidates(p) == Players \ {p}

Sim(p, q) == similarity_df.vals[p][q]

IsFind == call.op = "find_similar_players"

\* C1: best_match_for(p) is never p, and p is never among the rows of
\* find_similar_players(p, n) for n >= 1, whatever the diagonal holds
C1_SelfExcluded ==
    /\ call.op = "best_match_for" => call.best # call.player
    /\ (IsFind /\ call.n >= 1) =>
          \A i \in 1..Len(call.rows) : call.rows[i].player # call.player

\* a best match was computed in a column whose diagonal is its largest value
C1_Witness ==
    /\ call.op = "best_match_for"
    /\ call.best \in Candidates(call.player)
    /\ \A q \in Candidates(call.player) : Sim(call.player, call.player) > Sim(call.player, q)

\* C2: for n >= 1 find_similar_players(p, n) has min(n, playerCount - 1)
\* rows; 10 neighbours asked of 3 players are 2 rows
C2_Length ==
    (IsFind /\ call.n >= 1) => Len(call.rows) = Min(call.n, PlayerCount - 1)

\* the default of 10 neighbours was asked of a table of 3 players
C2_Witness ==
    /\ IsFind
    /\ call.n = TOP_N_DEFAULT
    /\ PlayerCount = 3
    /\ Len(call.rows) = 2

\* C3: for n >= 1 the similarity values of find_similar_players(p, n) never
\* increase from one row to the next, and every row carries the similarity
\* and the score columns of its own player
C3_Sorted ==
    (IsFind /\ call.n >= 1) =>
        /\ \A i \in 1..Len(call.rows), j \in 1..Len(call.rows) :
              i < j => call.rows[i].Similarity >= call.rows[j].Similarity
        /\ \A i \in 1..Len(call.rows) :
              /\ call.rows[i].Similarity = Sim(call.player, call.rows[i].player)
              /\ call.rows[i].GPIS = df.GPIS[call.rows[i].player]
              /\ call.rows[i].minutes_played = df.minutes_played[call.rows[i].player]

\* two rows were returned in the opposite of their order in the table
C3_Witness ==
    /\ IsFind
    /\ call.n >= 2
    /\ Len(call.rows) >= 2
    /\ call.rows[1].Similarity > call.rows[2].Similarity
    /\ PlayerNo(call.rows[1].player) > PlayerNo(call.rows[2].player)

\* C4 (as stated): find_similar_players(p, n) with n <= 0 fails with
\* InvalidTopNError
C4_Rejected == (IsFind /\ call.n <= 0) => call.error = "InvalidTopNError"

\* C4 (amended): find_similar_players(p, n) with n <= 0 raises nothing; it
\* returns the sorted candidates without their last -n rows, which is no row
\* for n = 0
C4_NegativeHead ==
    (IsFind /\ call.n <= 0) =>
        /\ call.error = "none"
        /\ Len(call.rows) = IF call.n = 0 THEN 0 ELSE Max(0, PlayerCount - 1 + call.n)
        /\ call.rows = SubSeq(find_similar_players(call.player, PlayerCount),
                              1, Len(call.rows))

\* a negative count was asked and rows came back
C4_Witness ==
    /\ IsFind
    /\ call.n < 0
    /\ Len(call.rows) >= 1

\* C5: with two or more players the script's best match is the player of the
\* first row of find_similar_players(player, 1), ties at the maximum
\* included, and the script finds it at default_index of its option list
C5_BestIsFirst ==
    /\ (run.status # "not run" /\ PlayerCount >= 2) => run.status = "ok"
    /\ run.status = "ok" =>
          /\ Len(find_similar_players(run.player, 1)) = 1
          /\ run.default_b = find_similar_players(run.player, 1)[1].player
          /\ run.default_index \in 0..(Len(run.similar_options) - 1)
          /\ run.similar_options[run.default_index + 1] = run.default_b

\* the script ran for a player whose two closest candidates tie
C5_Witness ==
    /\ run.status = "ok"
    /\ \E q \in Candidates(run.player), r \in Candidates(run.player) :
          /\ q # r
          /\ Sim(run.player, q) = Sim(run.player, r)
          /\ \A x \in Candidates(run.player) : Sim(run.player, x) <= Sim(run.player, q)

Lower(p) == Cardinality({q \in Players : df.GPIS[q] < df.GPIS[p]})

Equal(p) == Cardinality({q \in Players : df.GPIS[q] = df.GPIS[p]})

\* C6: the percentile of p is 100 * (L + (E + 1) / 2) / N, L players scoring
\* less and E players scoring the same (p included); it is 200/3 for B in
\* {A: 10, B: 20, C: 30}
C6_AverageRank ==
    call.op = "percentile" =>
        /\ RatEq(call.pct, <<100 * (2 * Lower(call.player) + Equal(call.player) + 1),
                            2 * PlayerCount>>)
        /\ (/\ PlayerCount = 3
            /\ df.GPIS = [p \in Players |-> 10 * PlayerNo(p)]
            /\ call.player = "B") => RatEq(call.pct, <<200, 3>>)

\* the percentile of a player in a tie above a lower score
C6_Witness ==
    /\ call.op = "percentile"
    /\ Equal(call.player) >= 2
    /\ Lower(call.player) >= 1

\* C7: the tier of a percentile is Elite from 85, Above average from 60 to
\* below 85, League average from 40 to below 60, Below average under 40
C7_Tiers ==
    call.op \in {"gpis_quality", "percentile"} =>
        LET x == call.pct
            tier == call.quality[1]
        IN /\ RatGeq(<<100, 1>>, x) /\ RatGeq(x, <<0, 1>>)
           /\ tier \in {"Elite impact", "Above average", "League average", "Below average"}
           /\ tier = "Elite impact" <=> RatGeq(x, <<85, 1>>)
           /\ tier = "Above average" <=> (RatGeq(x, <<60, 1>>) /\ ~RatGeq(x, <<85, 1>>))
           /\ tier = "League average" <=> (RatGeq(x, <<40, 1>>) /\ ~RatGeq(x, <<60, 1>>))
           /\ tier = "Below average" <=> ~RatGeq(x, <<40, 1>>)

\* 85 was classified
C7_Witness ==
    /\ call.op = "gpis_quality"
    /\ RatEq(call.pct, <<85, 1>>)
    /\ call.quality[1] = "Elite impact"

\* C8: radar_chart hands the figure two value sequences and a label sequence
\* of one more element than there are features, each ending with its first
\* element and starting with the values (labels) in the order asked, and
\* leaves the caller's feature and label lists as they were
C8_Closed ==
    call.op = "radar_chart" =>
        LET k == Len(StyleFeatures)
            f == call.fig
        IN /\ Len(f.r1) = k + 1 /\ Len(f.r2) = k + 1 /\ Len(f.theta) = k + 1
           /\ f.r1[k + 1] = f.r1[1] /\ f.r2[k + 1] = f.r2[1] /\ f.theta[k + 1] = f.theta[1]
           /\ \A j \in 1..k :
                 /\ f.r1[j] = df.features[call.player][j]
                 /\ f.r2[j] = df.features[call.other][j]
                 /\ f.theta[j] = StyleLabels[j]
           /\ f.features = StyleFeatures /\ f.labels = StyleLabels
           /\ style_features = StyleFeatures /\ style_labels = StyleLabels

\* a chart was built of two players whose first and last feature differ
C8_Witness ==
    /\ call.op = "radar_chart"
    /\ call.player # call.other
    /\ df.features[call.player][1] # df.features[call.player][NumFeatures]
    /\ df.features[call.other][1] # df.features[call.other][NumFeatures]

\* C10: once the session is initialised, whenever the script body has read
\* player_main the three session values are equal, are the player the body
\* read, and are the player selected last if one was selected
C10_InSync ==
    run.status # "not run" =>
        /\ session_state.player_main = session_state.player_top
        /\ session_state.player_main = session_state.player_similarity
        /\ run.player = session_state.player_main
        /\ selected[1] # NoValue => session_state.player_main = selected[2]

\* the script ran after a player other than the first was picked in the
\* "Player A" box
C10_Witness ==
    /\ selected[1] = "player_similarity"
    /\ run.status = "ok"
    /\ run.player = selected[2]
    /\ run.player # df.index[1]

====
